---- MODULE Spec2Model ----
(***************************************************************************)
(* State-machine model of the PhishBlock contracts:                        *)
(*   StakeBasedReportRegistry, ReputationSystem, PhishBlockRegistry        *)
(*   (contracts/ReputationSystem.sol) and EvidenceValidator                *)
(*   (contracts/EvidenceValidator.sol).                                    *)
(*                                                                         *)
(* Every external call is one action.  The require statements of a call   *)
(* are the guard of its action: a call that reverts changes nothing, so   *)
(* "the call fails" is "the action is not enabled".                        *)
(*                                                                         *)
(* The contracts do not call one another, so a behaviour exercises one     *)
(* deployed contract, named by the variable deployed.                      *)
(*                                                                         *)
(* Units.  Ether amounts are counted in finney (10^15 wei), so that        *)
(* 0.01 ether = 10.  10^16 wei and 10 finney leave the same remainders     *)
(* modulo 2 and 3, the only divisors _redistributeStake can use.  Token    *)
(* amounts are counted in 10^16 base units, so that one token is           *)
(* TOKEN = 100 units.  Times are seconds.                                  *)
(***************************************************************************)
EXTENDS Integers, Sequences, FiniteSets, Bags, TLC

(***************************************************************************)
(* Bounds of the explored environment                                      *)
(***************************************************************************)
Accounts == {"a1", "a2", "a3", "a4"}
Owner == "a1"
ReporterAccounts == {"a4"}
MaxReports == 2
InitialEther == 20
StartTime == 1700000000

Strings == {"", "x"}

Bool(b) == IF b THEN 1 ELSE 0

RECURSIVE SumOver(_, _)
SumOver(f, S) ==
    IF S = {} THEN 0
    ELSE LET x == CHOOSE y \in S : TRUE IN f[x] + SumOver(f, S \ {x})

Range(s) == {s[i] : i \in DOMAIN s}

VARIABLES
    deployed,      \* the contract this behaviour exercises
    now,           \* block.timestamp
    \* ---- StakeBasedReportRegistry
    ether,         \* ether balance of every account
    balance,       \* address(this).balance
    reports,       \* reports[1 .. _reportIds.current()]
    validators,    \* validators mapping
    \* ---- EvidenceValidator
    evPaused,              \* Pausable._paused
    evidence,              \* evidence items, in the order of allEvidenceIds
    validationResults,     \* validationResults of every evidence item, each
                           \* array as the bag of its entries
    knownIPFSHashes,       \* the hashes with knownIPFSHashes[h] = true
    validatorReputation,
    authorizedValidators,
    \* ---- PhishBlockRegistry
    pbPaused,              \* Pausable._paused
    pbReports,             \* the reports, in the order of _reportCounter
    pbVotes,               \* votes[reportId][account] of every report
    pbDisputes,            \* disputes[reportId] of every report
    userReputation,
    lastSubmissionTime,
    submissionCount,
    urlBlacklist,          \* the targets with urlBlacklist[t] = true
    walletBlacklist,       \* the targets with walletBlacklist[t] = true
    \* ---- ReputationSystem
    rsPaused,              \* Pausable._paused
    tierThresholds,
    tokens,                \* stakingToken.balanceOf of every account
    rsTokens,              \* stakingToken.balanceOf(address(this))
    stakeCounter,          \* _stakeCounter
    userStakes,
    userStakeCount,
    reputationProfiles,
    rewardPool,
    pendingRewards,
    lastRewardClaim,
    claimedRewards,        \* sum of the amounts claimRewards has transferred
    \* ---- ReportRegistry
    rrReports,             \* reports mapping, zero for a hash never registered
    rrVotes,               \* votes[reportHash][voter]
    reportHashes

sbrVars == <<ether, balance, reports, validators>>
evVars == <<evPaused, evidence, validationResults, knownIPFSHashes,
            validatorReputation, authorizedValidators>>
pbrVars == <<pbPaused, pbReports, pbVotes, pbDisputes, userReputation, lastSubmissionTime,
             submissionCount, urlBlacklist, walletBlacklist>>
rsVars == <<rsPaused, tierThresholds, tokens, rsTokens, stakeCounter, userStakes,
            userStakeCount, reputationProfiles, rewardPool, pendingRewards,
            lastRewardClaim, claimedRewards>>
rrVars == <<rrReports, rrVotes, reportHashes>>
vars == <<deployed, now, sbrVars, evVars, pbrVars, rsVars, rrVars>>

(***************************************************************************)
(* StakeBasedReportRegistry                                                *)
(***************************************************************************)
SBR == "StakeBasedReportRegistry"

REPORT_STAKE == 10
VOTING_STAKE == 5
VALIDATOR_REWARD == 1
REPORTER_REWARD == 5
MIN_VALIDATORS == 3
VOTING_PERIOD == 604800

InitialValidatorReputation == 100

NoVotes == [a \in Accounts |-> "None"]
NoStakes == [a \in Accounts |-> 0]

\* the zero-initialised storage slot read for an id that was never written
EmptyReport ==
    [reportType |-> "", targetValue |-> "", description |-> "",
     reporter |-> "0x0", stakeAmount |-> 0, timestamp |-> 0,
     votingDeadline |-> 0, status |-> "Pending",
     validVotes |-> 0, invalidVotes |-> 0,
     votes |-> NoVotes, validatorStakes |-> NoStakes, validators |-> <<>>]

EmptyValidator ==
    [reputation |-> 0, totalValidations |-> 0, correctValidations |-> 0,
     isActive |-> FALSE]

ReportAt(rs, reportId) ==
    IF reportId \in DOMAIN rs THEN rs[reportId] ELSE EmptyReport

onlyActiveValidator(sender) == validators[sender].isActive

reportExists(reportId) == reportId <= Len(reports)

votingOpen_NoStatusCheck(reportId) ==
    now <= ReportAt(reports, reportId).votingDeadline

votingOpen(reportId) ==
    /\ now <= ReportAt(reports, reportId).votingDeadline
    /\ ReportAt(reports, reportId).status = "Pending"

\* payable(to).transfer(amount) inside a call whose working state is w
transfer(w, to, amount) ==
    IF w.ok /\ w.bal >= amount
    THEN [w EXCEPT !.bal = @ - amount, !.eth[to] = @ + amount]
    ELSE [w EXCEPT !.ok = FALSE]

validatedPayout_RewardAll(report, validator) ==
    report.validatorStakes[validator] + VALIDATOR_REWARD

\* what _distributeValidatorRewards transfers to one validator
validatedPayout(report, validator) ==
    IF report.votes[validator] = "Valid"
    THEN report.validatorStakes[validator] + VALIDATOR_REWARD
    ELSE report.validatorStakes[validator]

RECURSIVE DistributeFrom(_, _, _)
DistributeFrom(w, reportId, i) ==
    LET report == w.reports[reportId] IN
    IF i > Len(report.validators) THEN w
    ELSE LET validator == report.validators[i]
             paid == transfer(w, validator, validatedPayout(report, validator))
         IN DistributeFrom(paid, reportId, i + 1)

_distributeValidatorRewards(w, reportId) == DistributeFrom(w, reportId, 1)

correctValidators(report) ==
    Cardinality({i \in DOMAIN report.validators :
                    report.votes[report.validators[i]] = "Invalid"})

stakePerValidator(report) == report.stakeAmount \div correctValidators(report)

\* what _redistributeStake transfers to one validator
rejectedPayout(report, validator) ==
    IF report.votes[validator] = "Invalid"
    THEN report.validatorStakes[validator] + stakePerValidator(report)
    ELSE report.validatorStakes[validator]

RECURSIVE RedistributeFrom(_, _, _)
RedistributeFrom(w, reportId, i) ==
    LET report == w.reports[reportId] IN
    IF i > Len(report.validators) THEN w
    ELSE LET validator == report.validators[i]
             paid == transfer(w, validator, rejectedPayout(report, validator))
         IN RedistributeFrom(paid, reportId, i + 1)

_redistributeStake(w, reportId) ==
    IF correctValidators(w.reports[reportId]) > 0
    THEN RedistributeFrom(w, reportId, 1)
    ELSE w

voteCorrect(report, validator) ==
    \/ report.status = "Validated" /\ report.votes[validator] = "Valid"
    \/ report.status = "Rejected" /\ report.votes[validator] = "Invalid"

decreasedReputation_NoFloor(reputation) == reputation - 1

\* val.reputation > 1 ? val.reputation - 1 : 1
decreasedReputation(reputation) == IF reputation > 1 THEN reputation - 1 ELSE 1

RECURSIVE ReputationFrom(_, _, _)
ReputationFrom(w, reportId, i) ==
    LET report == w.reports[reportId] IN
    IF i > Len(report.validators) THEN w
    ELSE LET validator == report.validators[i]
             val == w.validators[validator]
             upd == IF voteCorrect(report, validator)
                    THEN [val EXCEPT !.totalValidations = @ + 1,
                                     !.correctValidations = @ + 1,
                                     !.reputation = @ + 1]
                    ELSE [val EXCEPT !.totalValidations = @ + 1,
                                     !.reputation = decreasedReputation(@)]
         IN ReputationFrom([w EXCEPT !.validators[validator] = upd],
                           reportId, i + 1)

_updateValidatorReputation(w, reportId) == ReputationFrom(w, reportId, 1)

finalizeIsValid(report) == report.validVotes > report.invalidVotes

_finalizeReport(w, reportId) ==
    LET report == w.reports[reportId] IN
    IF ~(Len(report.validators) >= MIN_VALIDATORS)
    THEN [w EXCEPT !.ok = FALSE]
    ELSE IF finalizeIsValid(report)
    THEN LET w1 == [w EXCEPT !.reports[reportId].status = "Validated"]
             w2 == transfer(w1, report.reporter,
                            report.stakeAmount + REPORTER_REWARD)
             w3 == _distributeValidatorRewards(w2, reportId)
         IN _updateValidatorReputation(w3, reportId)
    ELSE LET w1 == [w EXCEPT !.reports[reportId].status = "Rejected"]
             w2 == _redistributeStake(w1, reportId)
         IN _updateValidatorReputation(w2, reportId)

quorumReached_Strict(report) == Len(report.validators) > MIN_VALIDATORS

quorumReached(report) == Len(report.validators) >= MIN_VALIDATORS

\* the body of voteOnReport up to the quorum check
recordVote(w, sender, reportId, isValid, value) ==
    LET report == w.reports[reportId]
        validatorExists == \E i \in DOMAIN report.validators :
                               report.validators[i] = sender
        voted == [report EXCEPT
                    !.validators = IF validatorExists THEN @
                                   ELSE Append(@, sender),
                    !.votes[sender] = IF isValid THEN "Valid" ELSE "Invalid",
                    !.validatorStakes[sender] = value,
                    !.validVotes = @ + Bool(isValid),
                    !.invalidVotes = @ + Bool(~isValid)]
    IN [w EXCEPT !.reports[reportId] = voted]

notYetVoted_Unchecked(sender, reportId) == TRUE

notYetVoted(sender, reportId) ==
    ReportAt(reports, reportId).votes[sender] = "None"

voteRequires(sender, reportId, value) ==
    /\ onlyActiveValidator(sender)
    /\ reportExists(reportId)
    /\ votingOpen(reportId)
    /\ value = VOTING_STAKE
    /\ notYetVoted(sender, reportId)

registerValidator(sender) ==
    /\ deployed = SBR
    /\ ~validators[sender].isActive
    /\ validators' = [validators EXCEPT ![sender] =
           [reputation |-> InitialValidatorReputation,
            totalValidations |-> 0, correctValidations |-> 0,
            isActive |-> TRUE]]
    /\ UNCHANGED <<deployed, rrVars, now, ether, balance, reports, evVars, pbrVars,
                   rsVars>>

submitRequires(value, reportType, targetValue, description) ==
    /\ value = REPORT_STAKE
    /\ reportType # ""
    /\ targetValue # ""
    /\ description # ""

submitReportWithStake(sender, value, reportType, targetValue, description) ==
    /\ deployed = SBR
    /\ ether[sender] >= value
    /\ Len(reports) < MaxReports
    /\ submitRequires(value, reportType, targetValue, description)
    /\ reports' = Append(reports,
          [EmptyReport EXCEPT
             !.reportType = reportType,
             !.targetValue = targetValue,
             !.description = description,
             !.reporter = sender,
             !.stakeAmount = value,
             !.timestamp = now,
             !.votingDeadline = now + VOTING_PERIOD,
             !.status = "Pending"])
    /\ ether' = [ether EXCEPT ![sender] = @ - value]
    /\ balance' = balance + value
    /\ UNCHANGED <<deployed, rrVars, now, validators, evVars, pbrVars, rsVars>>

\* the state voteOnReport leaves when none of its require statements fails;
\* ok is FALSE when a transfer of the finalization ran out of funds
voteOutcome(sender, reportId, isValid, value) ==
    LET w0 == [reports |-> reports, validators |-> validators,
               bal |-> balance + value,
               eth |-> [ether EXCEPT ![sender] = @ - value],
               ok |-> TRUE]
        w1 == recordVote(w0, sender, reportId, isValid, value)
    IN IF quorumReached(w1.reports[reportId])
       THEN _finalizeReport(w1, reportId)
       ELSE w1

voteOnReport(sender, reportId, isValid, value) ==
    /\ deployed = SBR
    /\ ether[sender] >= value
    /\ voteRequires(sender, reportId, value)
    /\ voteOutcome(sender, reportId, isValid, value).ok
    /\ LET w == voteOutcome(sender, reportId, isValid, value)
       IN /\ reports' = w.reports
          /\ validators' = w.validators
          /\ balance' = w.bal
          /\ ether' = w.eth
    /\ UNCHANGED <<deployed, rrVars, now, evVars, pbrVars, rsVars>>

\* payable(owner()).transfer(address(this).balance)
emergencyWithdraw(sender) ==
    /\ deployed = SBR
    /\ sender = Owner
    /\ ether' = [ether EXCEPT ![Owner] = @ + balance]
    /\ balance' = 0
    /\ UNCHANGED <<deployed, rrVars, now, reports, validators, evVars,
                   pbrVars, rsVars>>

\* the status field getReport returns (a view: it changes nothing)
getReport(reportId) == ReportAt(reports, reportId).status

sbrConstructed ==
    /\ ether = [a \in Accounts |-> InitialEther]
    /\ balance = 0
    /\ reports = <<>>
    /\ validators = [a \in Accounts |-> EmptyValidator]

(***************************************************************************)
(* EvidenceValidator                                                       *)
(***************************************************************************)
EV == "EvidenceValidator"

MIN_VALIDATION_REPUTATION == 50
MAX_FILE_SIZE == 10485760
MIN_VALIDATIONS_REQUIRED == 3
VALIDATION_TIMEOUT == 604800
IPFS_HASH_LENGTH == 46
REPUTATION_REWARD_VALIDATION == 2
OwnerValidatorReputation == 100

MaxEvidence == 2
Hashes == {"QmAAAAAAAAAAAAAAAAAAAAAAAAAAAAAAAAAAAAAAAAAAAA",
           "QmBBBBBBBBBBBBBBBBBBBBBBBBBBBBBBBBBBBBBBBBBBBB",
           "QmTooShort"}
FileSizes == {0, 1024, MAX_FILE_SIZE + 1}
EvidenceSubmitters == {"a4"}
EmergencyStatuses == {"UnderReview"}
InitialReputations == {60}

onlyAuthorizedValidator(sender) ==
    /\ authorizedValidators[sender]
    /\ validatorReputation[sender] >= MIN_VALIDATION_REPUTATION

\* evidence ids are keccak256 hashes over the evidence counter; the model
\* names an item by the value of the counter
onlyExistingEvidence(evidenceId) == evidenceId \in DOMAIN evidence

onlyPendingEvidence_Unchecked(evidenceId) == TRUE

onlyPendingEvidence(evidenceId) ==
    \/ evidence[evidenceId].status = "Pending"
    \/ evidence[evidenceId].status = "UnderReview"

hashUnknown_Unchecked(ipfsHash) == TRUE

\* require(!knownIPFSHashes[ipfsHash])
hashUnknown(ipfsHash) == ipfsHash \notin knownIPFSHashes

submitEvidence(sender, ipfsHash, fileSize, mimeType, description) ==
    /\ deployed = EV
    /\ Len(evidence) < MaxEvidence
    /\ ~evPaused
    /\ Len(ipfsHash) = IPFS_HASH_LENGTH
    /\ fileSize <= MAX_FILE_SIZE
    /\ fileSize > 0
    /\ mimeType # ""
    /\ description # ""
    /\ hashUnknown(ipfsHash)
    /\ evidence' = Append(evidence,
          [submitter |-> sender, ipfsHash |-> ipfsHash,
           status |-> "Pending", validationLevel |-> "Basic",
           timestamp |-> now, fileSize |-> fileSize,
           mimeType |-> mimeType, description |-> description,
           validators |-> [a \in Accounts |-> FALSE],
           validationCount |-> 0,
           positiveValidations |-> 0, negativeValidations |-> 0])
    /\ validationResults' = Append(validationResults, EmptyBag)
    /\ knownIPFSHashes' = knownIPFSHashes \cup {ipfsHash}
    /\ UNCHANGED <<deployed, rrVars, now, sbrVars, pbrVars, rsVars, evPaused,
                   validatorReputation,
                   authorizedValidators>>

notYetValidated_Unchecked(sender, evidenceId) == TRUE

notYetValidated(sender, evidenceId) == ~evidence[evidenceId].validators[sender]

evidenceOutcome_TieValidates(ev) ==
    IF ev.positiveValidations >= ev.negativeValidations
    THEN "Validated" ELSE "Rejected"

\* the status _finalizeValidation gives an evidence item
evidenceOutcome(ev) ==
    IF ev.positiveValidations > ev.negativeValidations
    THEN "Validated" ELSE "Rejected"

_finalizeValidation(ev) == [ev EXCEPT !.status = evidenceOutcome(ev)]

validateEvidence(sender, evidenceId, isValid, reason, level) ==
    /\ deployed = EV
    /\ ~evPaused
    /\ onlyAuthorizedValidator(sender)
    /\ onlyExistingEvidence(evidenceId)
    /\ onlyPendingEvidence(evidenceId)
    /\ reason # ""
    /\ notYetValidated(sender, evidenceId)
    /\ now <= evidence[evidenceId].timestamp + VALIDATION_TIMEOUT
    /\ LET ev == [evidence[evidenceId] EXCEPT
                    !.validators[sender] = TRUE,
                    !.validationCount = @ + 1,
                    !.positiveValidations = @ + Bool(isValid),
                    !.negativeValidations = @ + Bool(~isValid)]
       IN evidence' = [evidence EXCEPT ![evidenceId] =
                          IF ev.validationCount >= MIN_VALIDATIONS_REQUIRED
                          THEN _finalizeValidation(ev) ELSE ev]
    /\ validationResults' = [validationResults EXCEPT ![evidenceId] =
          @ (+) SetToBag({[validator |-> sender, isValid |-> isValid,
                           reason |-> reason, level |-> level]})]
    /\ validatorReputation' =
          IF isValid
          THEN [validatorReputation EXCEPT
                  ![sender] = @ + REPUTATION_REWARD_VALIDATION]
          ELSE validatorReputation
    /\ UNCHANGED <<deployed, rrVars, now, sbrVars, pbrVars, rsVars, evPaused,
                   knownIPFSHashes,
                   authorizedValidators>>

authorizeValidator(sender, validator, initialReputation) ==
    /\ deployed = EV
    /\ sender = Owner
    /\ ~authorizedValidators[validator]
    /\ authorizedValidators' = [authorizedValidators EXCEPT ![validator] = TRUE]
    /\ validatorReputation' =
          [validatorReputation EXCEPT ![validator] = initialReputation]
    /\ UNCHANGED <<deployed, rrVars, now, sbrVars, pbrVars, rsVars, evPaused,
                   evidence,
                   validationResults, knownIPFSHashes>>

emergencyUpdateEvidenceStatus(sender, evidenceId, newStatus) ==
    /\ deployed = EV
    /\ sender = Owner
    /\ onlyExistingEvidence(evidenceId)
    /\ evidence' = [evidence EXCEPT ![evidenceId].status = newStatus]
    /\ UNCHANGED <<deployed, rrVars, now, sbrVars, pbrVars, rsVars, evPaused,
                   validationResults,
                   knownIPFSHashes, validatorReputation, authorizedValidators>>

evConstructed ==
    /\ evPaused = FALSE
    /\ evidence = <<>>
    /\ validationResults = <<>>
    /\ knownIPFSHashes = {}
    /\ validatorReputation =
          [a \in Accounts |-> IF a = Owner THEN OwnerValidatorReputation ELSE 0]
    /\ authorizedValidators = [a \in Accounts |-> a = Owner]

(***************************************************************************)
(* PhishBlockRegistry (contracts/ReputationSystem.sol)                     *)
(***************************************************************************)
PBR == "PhishBlockRegistry"

MIN_REPUTATION_TO_REPORT == 5
RATE_LIMIT_WINDOW == 3600
MAX_SUBMISSIONS_PER_WINDOW == 5
MIN_REPUTATION_TO_VOTE == 10
VOTE_TIMEOUT == 604800
DISPUTE_TIMEOUT == 1209600
REPUTATION_REWARD_REPORT == 2
REPUTATION_PENALTY_FALSE_REPORT == 5
OwnerReputation == 100

MaxRegistryReports == 7
MaxVariedReports == 2
RegistryUsers == {"a1", "a4"}
NewReputations == {0, MIN_REPUTATION_TO_REPORT - 1, MIN_REPUTATION_TO_REPORT}
EvidenceTypes == {"URL"}

\* the zero-initialised Vote read for an account that has not voted
EmptyVote ==
    [hasVoted |-> FALSE, isUpvote |-> FALSE, timestamp |-> 0,
     reputationWeight |-> 0]

onlyValidReporter_Unchecked(sender) == TRUE

onlyValidReporter(sender) == userReputation[sender] >= MIN_REPUTATION_TO_REPORT

rateLimited_OffByOne(sender) ==
    \/ now - lastSubmissionTime[sender] >= RATE_LIMIT_WINDOW
    \/ submissionCount[sender] <= MAX_SUBMISSIONS_PER_WINDOW

rateLimited(sender) ==
    \/ now - lastSubmissionTime[sender] >= RATE_LIMIT_WINDOW
    \/ submissionCount[sender] < MAX_SUBMISSIONS_PER_WINDOW

notBlacklisted_UrlOnly(targetUrl, targetWallet) ==
    targetUrl # "" => targetUrl \notin urlBlacklist

notBlacklisted(targetUrl, targetWallet) ==
    /\ targetUrl # "" => targetUrl \notin urlBlacklist
    /\ targetWallet # "" => targetWallet \notin walletBlacklist

\* a report's id is a hash over the counter, so the reports are kept in the
\* order of the counter
submitReport(sender, targetUrl, targetWallet, description, ipfsHash, evidenceType) ==
    /\ deployed = PBR
    /\ Len(pbReports) < MaxRegistryReports
    /\ ~pbPaused
    /\ onlyValidReporter(sender)
    /\ rateLimited(sender)
    /\ targetUrl # "" \/ targetWallet # ""
    /\ description # ""
    /\ ipfsHash # ""
    /\ notBlacklisted(targetUrl, targetWallet)
    /\ pbReports' = Append(pbReports,
          [reporter |-> sender, targetUrl |-> targetUrl,
           targetWallet |-> targetWallet, description |-> description,
           ipfsHash |-> ipfsHash, evidenceType |-> evidenceType,
           status |-> "Pending", timestamp |-> now, upvotes |-> 0,
           downvotes |-> 0, disputeCount |-> 0])
    /\ pbVotes' = Append(pbVotes, [a \in Accounts |-> EmptyVote])
    /\ pbDisputes' = Append(pbDisputes, <<>>)
    /\ submissionCount' = [submissionCount EXCEPT ![sender] =
          IF now - lastSubmissionTime[sender] >= RATE_LIMIT_WINDOW
          THEN 1 ELSE @ + 1]
    /\ lastSubmissionTime' = [lastSubmissionTime EXCEPT ![sender] = now]
    /\ UNCHANGED <<deployed, rrVars, now, sbrVars, evVars, rsVars, pbPaused,
                   userReputation, urlBlacklist, walletBlacklist>>

addToBlacklist(sender, target, isUrl) ==
    /\ deployed = PBR
    /\ sender = Owner
    /\ target # ""
    /\ urlBlacklist' = IF isUrl THEN urlBlacklist \cup {target}
                       ELSE urlBlacklist
    /\ walletBlacklist' = IF isUrl THEN walletBlacklist
                          ELSE walletBlacklist \cup {target}
    /\ UNCHANGED <<deployed, rrVars, now, sbrVars, evVars, rsVars, pbPaused,
                   pbReports, pbVotes, pbDisputes, userReputation,
                   lastSubmissionTime, submissionCount>>

removeFromBlacklist(sender, target, isUrl) ==
    /\ deployed = PBR
    /\ sender = Owner
    /\ target # ""
    /\ urlBlacklist' = IF isUrl THEN urlBlacklist \ {target}
                       ELSE urlBlacklist
    /\ walletBlacklist' = IF isUrl THEN walletBlacklist
                          ELSE walletBlacklist \ {target}
    /\ UNCHANGED <<deployed, rrVars, now, sbrVars, evVars, rsVars, pbPaused,
                   pbReports, pbVotes, pbDisputes, userReputation,
                   lastSubmissionTime, submissionCount>>

emergencyUpdateReputation(sender, user, newReputation) ==
    /\ deployed = PBR
    /\ sender = Owner
    /\ userReputation' = [userReputation EXCEPT ![user] = newReputation]
    /\ UNCHANGED <<deployed, rrVars, now, sbrVars, evVars, rsVars, pbPaused,
                   pbReports, pbVotes, pbDisputes, lastSubmissionTime,
                   submissionCount, urlBlacklist, walletBlacklist>>

onlyValidVoter(sender) == userReputation[sender] >= MIN_REPUTATION_TO_VOTE

onlyExistingReport(reportId) == reportId \in DOMAIN pbReports

onlyActiveReport(reportId) ==
    \/ pbReports[reportId].status = "Pending"
    \/ pbReports[reportId].status = "Verified"

removedWeight_Current(userVote, reputationWeight) == reputationWeight

\* the weight a changed vote takes out of the tally it leaves
removedWeight(userVote, reputationWeight) == userVote.reputationWeight

\* the report after vote(reportId, isUpvote) by an account whose stored vote
\* is userVote and whose reputation is reputationWeight
votedReport(report, userVote, isUpvote, reputationWeight) ==
    IF userVote.hasVoted
    THEN IF userVote.isUpvote # isUpvote
         THEN LET removed ==
                     IF userVote.isUpvote
                     THEN [report EXCEPT !.upvotes =
                             @ - removedWeight(userVote, reputationWeight)]
                     ELSE [report EXCEPT !.downvotes =
                             @ - removedWeight(userVote, reputationWeight)]
              IN IF isUpvote
                 THEN [removed EXCEPT !.upvotes = @ + reputationWeight]
                 ELSE [removed EXCEPT !.downvotes = @ + reputationWeight]
         ELSE report
    ELSE IF isUpvote
         THEN [report EXCEPT !.upvotes = @ + reputationWeight]
         ELSE [report EXCEPT !.downvotes = @ + reputationWeight]

votedVote(userVote, isUpvote, reputationWeight) ==
    IF userVote.hasVoted
    THEN IF userVote.isUpvote # isUpvote
         THEN [userVote EXCEPT !.isUpvote = isUpvote,
                               !.reputationWeight = reputationWeight]
         ELSE userVote
    ELSE [hasVoted |-> TRUE, isUpvote |-> isUpvote, timestamp |-> now,
          reputationWeight |-> reputationWeight]

vote(sender, reportId, isUpvote) ==
    /\ deployed = PBR
    /\ ~pbPaused
    /\ onlyValidVoter(sender)
    /\ onlyExistingReport(reportId)
    /\ onlyActiveReport(reportId)
    /\ now <= pbReports[reportId].timestamp + VOTE_TIMEOUT
    /\ LET report == votedReport(pbReports[reportId], pbVotes[reportId][sender],
                                 isUpvote, userReputation[sender])
       IN /\ report.upvotes >= 0
          /\ report.downvotes >= 0
          /\ pbReports' = [pbReports EXCEPT ![reportId] = report]
    /\ pbVotes' = [pbVotes EXCEPT ![reportId][sender] =
          votedVote(@, isUpvote, userReputation[sender])]
    /\ UNCHANGED <<deployed, rrVars, now, sbrVars, evVars, rsVars, pbPaused,
                   pbDisputes, userReputation, lastSubmissionTime,
                   submissionCount, urlBlacklist, walletBlacklist>>

disputeRequires_OwnReport(sender, reportId, reason) ==
    /\ reason # ""
    /\ now <= pbReports[reportId].timestamp + DISPUTE_TIMEOUT

disputeRequires(sender, reportId, reason) ==
    /\ reason # ""
    /\ sender # pbReports[reportId].reporter
    /\ now <= pbReports[reportId].timestamp + DISPUTE_TIMEOUT

raiseDispute(sender, reportId, reason) ==
    /\ deployed = PBR
    /\ ~pbPaused
    /\ onlyValidVoter(sender)
    /\ onlyExistingReport(reportId)
    /\ disputeRequires(sender, reportId, reason)
    /\ pbDisputes' = [pbDisputes EXCEPT ![reportId] = Append(@,
          [disputer |-> sender, reason |-> reason, timestamp |-> now,
           resolved |-> FALSE])]
    /\ pbReports' = [pbReports EXCEPT ![reportId].disputeCount = @ + 1]
    /\ UNCHANGED <<deployed, rrVars, now, sbrVars, evVars, rsVars, pbPaused, pbVotes,
                   userReputation, lastSubmissionTime, submissionCount,
                   urlBlacklist, walletBlacklist>>

_updateReputation(reputation, user, change) ==
    IF change > 0
    THEN [reputation EXCEPT ![user] = @ + change]
    ELSE [reputation EXCEPT ![user] = IF @ >= -change THEN @ + change ELSE 0]

updateReportStatus(sender, reportId, newStatus) ==
    /\ deployed = PBR
    /\ sender = Owner
    /\ onlyExistingReport(reportId)
    /\ pbReports' = [pbReports EXCEPT ![reportId].status = newStatus]
    /\ userReputation' =
          IF newStatus = "Verified"
          THEN _updateReputation(userReputation, pbReports[reportId].reporter,
                                 REPUTATION_REWARD_REPORT)
          ELSE IF newStatus = "Disputed"
          THEN _updateReputation(userReputation, pbReports[reportId].reporter,
                                 -REPUTATION_PENALTY_FALSE_REPORT)
          ELSE userReputation
    /\ UNCHANGED <<deployed, rrVars, now, sbrVars, evVars, rsVars, pbPaused, pbVotes,
                   pbDisputes, lastSubmissionTime, submissionCount,
                   urlBlacklist, walletBlacklist>>

pbrConstructed ==
    /\ pbPaused = FALSE
    /\ pbReports = <<>>
    /\ pbVotes = <<>>
    /\ pbDisputes = <<>>
    /\ userReputation =
          [a \in Accounts |-> IF a = Owner THEN OwnerReputation ELSE 0]
    /\ lastSubmissionTime = [a \in Accounts |-> 0]
    /\ submissionCount = [a \in Accounts |-> 0]
    /\ urlBlacklist = {}
    /\ walletBlacklist = {}

(***************************************************************************)
(* ReputationSystem (contracts/ReputationSystem.sol)                       *)
(***************************************************************************)
RS == "ReputationSystem"

TOKEN == 100
MIN_STAKE_AMOUNT == 100 * TOKEN
MAX_STAKE_PERIOD == 31536000
MIN_STAKE_PERIOD == 604800
SLASHING_PENALTY == 10
REWARD_CLAIM_COOLDOWN == 86400
MAX_STAKES_PER_USER == 10
MinStakerReputation == 10
InitialBaseReputation == 10
DistributionInterval == 604800

MaxStakes == 2
MaxSlashes == 1
MaxBaseReputation == 10
InitialTokens == 2 * MIN_STAKE_AMOUNT
Stakers == {"a2", "a3"}
StakeAmounts == {MIN_STAKE_AMOUNT - 1, MIN_STAKE_AMOUNT}
LockPeriods == {MIN_STAKE_PERIOD - 1, MIN_STAKE_PERIOD}
StakeTypes == {"Report"}
ReputationChanges == {<<10, FALSE>>, <<-20, TRUE>>}
ThresholdUpdates == {<<"Silver", 20>>}
TierThresholdValues == {0, 20}

\* the stake ids the behaviour has storage for, the same for every account
StakeIds == DOMAIN userStakes[Owner]

EmptyStake ==
    [amount |-> 0, timestamp |-> 0, lockPeriod |-> 0, stakeType |-> "Report",
     active |-> FALSE, reputationMultiplier |-> 0]

EmptyProfile ==
    [baseReputation |-> 0, stakedReputation |-> 0, totalReputation |-> 0,
     tier |-> "Bronze", lastUpdate |-> 0, reportsSubmitted |-> 0,
     votesCast |-> 0, correctVotes |-> 0, falseReports |-> 0,
     slashingCount |-> 0]

\* userStakes[user][stakeId], zero for an id never written
StakeAt(stakes, user, stakeId) ==
    IF stakeId \in StakeIds THEN stakes[user][stakeId] ELSE EmptyStake

stakeTypeMultipliers(stakeType) ==
    CASE stakeType = "Report" -> 150
      [] stakeType = "Vote" -> 120
      [] stakeType = "Validator" -> 200

Tiers == {"Bronze", "Silver", "Gold", "Platinum", "Diamond"}

\* the thresholds the constructor sets
initialTierThresholds(tier) ==
    CASE tier = "Bronze" -> 0
      [] tier = "Silver" -> 50
      [] tier = "Gold" -> 100
      [] tier = "Platinum" -> 250
      [] tier = "Diamond" -> 500

onlyValidStaker(user) ==
    reputationProfiles[user].baseReputation >= MinStakerReputation

onlyActiveStake(user, stakeId) == StakeAt(userStakes, user, stakeId).active

onlyStakeOwner(user, stakeId) == StakeAt(userStakes, user, stakeId).amount > 0

\* the loop of _updateStakedReputation: the active amounts at the ids
\* i .. count of the user's mapping
RECURSIVE TotalStakedFrom(_, _, _, _)
TotalStakedFrom(stakes, user, count, i) ==
    IF i > count THEN 0
    ELSE (IF StakeAt(stakes, user, i).active
          THEN StakeAt(stakes, user, i).amount ELSE 0)
         + TotalStakedFrom(stakes, user, count, i + 1)

_updateStakedReputation(profile, stakes, user, count) ==
    LET staked == TotalStakedFrom(stakes, user, count, 1) \div TOKEN
    IN  [profile EXCEPT !.stakedReputation = staked,
                        !.totalReputation = profile.baseReputation + staked]

_calculateTier_GoldBeforePlatinum(totalReputation) ==
    IF totalReputation >= tierThresholds["Diamond"] THEN "Diamond"
    ELSE IF totalReputation >= tierThresholds["Gold"] THEN "Gold"
    ELSE IF totalReputation >= tierThresholds["Platinum"] THEN "Platinum"
    ELSE IF totalReputation >= tierThresholds["Silver"] THEN "Silver"
    ELSE "Bronze"

_calculateTier(totalReputation) ==
    IF totalReputation >= tierThresholds["Diamond"] THEN "Diamond"
    ELSE IF totalReputation >= tierThresholds["Platinum"] THEN "Platinum"
    ELSE IF totalReputation >= tierThresholds["Gold"] THEN "Gold"
    ELSE IF totalReputation >= tierThresholds["Silver"] THEN "Silver"
    ELSE "Bronze"

withinStakeLimit_Unchecked(sender) == TRUE

withinStakeLimit(sender) == userStakeCount[sender] < MAX_STAKES_PER_USER

\* safeTransferFrom needs the sender's allowance: every account has approved
\* the contract for its whole balance
depositStake(sender, amount, lockPeriod, stakeType) ==
    /\ deployed = RS
    /\ stakeCounter + 1 \in StakeIds
    /\ ~rsPaused
    /\ onlyValidStaker(sender)
    /\ amount >= MIN_STAKE_AMOUNT
    /\ lockPeriod >= MIN_STAKE_PERIOD /\ lockPeriod <= MAX_STAKE_PERIOD
    /\ withinStakeLimit(sender)
    /\ tokens[sender] >= amount
    /\ LET stakeId == stakeCounter + 1
           stakes == [userStakes EXCEPT ![sender][stakeId] =
                        [amount |-> amount, timestamp |-> now,
                         lockPeriod |-> lockPeriod, stakeType |-> stakeType,
                         active |-> TRUE,
                         reputationMultiplier |->
                            stakeTypeMultipliers(stakeType)]]
           count == userStakeCount[sender] + 1
       IN  /\ tokens' = [tokens EXCEPT ![sender] = @ - amount]
           /\ rsTokens' = rsTokens + amount
           /\ stakeCounter' = stakeId
           /\ userStakes' = stakes
           /\ userStakeCount' = [userStakeCount EXCEPT ![sender] = count]
           /\ reputationProfiles' = [reputationProfiles EXCEPT ![sender] =
                 _updateStakedReputation(@, stakes, sender, count)]
    /\ UNCHANGED <<deployed, rrVars, now, sbrVars, evVars, pbrVars, rsPaused,
                   tierThresholds,
                   rewardPool, pendingRewards, lastRewardClaim,
                   claimedRewards>>

withdrawPenalty_AtBoundary(stake) ==
    IF now <= stake.timestamp + stake.lockPeriod
    THEN (stake.amount * SLASHING_PENALTY) \div 100
    ELSE 0

withdrawPenalty(stake) ==
    IF now < stake.timestamp + stake.lockPeriod
    THEN (stake.amount * SLASHING_PENALTY) \div 100
    ELSE 0

withdrawAmount_NoPenalty(stake) == stake.amount

withdrawAmount(stake) == stake.amount - withdrawPenalty(stake)

withdrawStake(sender, stakeId) ==
    /\ deployed = RS
    /\ ~rsPaused
    /\ onlyStakeOwner(sender, stakeId)
    /\ onlyActiveStake(sender, stakeId)
    /\ userStakeCount[sender] >= 1
    /\ LET stake == userStakes[sender][stakeId]
           stakes == [userStakes EXCEPT ![sender][stakeId].active = FALSE]
           count == userStakeCount[sender] - 1
       IN  /\ rsTokens >= withdrawAmount(stake)
           /\ userStakes' = stakes
           /\ userStakeCount' = [userStakeCount EXCEPT ![sender] = count]
           /\ reputationProfiles' = [reputationProfiles EXCEPT ![sender] =
                 _updateStakedReputation(@, stakes, sender, count)]
           /\ tokens' = [tokens EXCEPT ![sender] = @ + withdrawAmount(stake)]
           /\ rsTokens' = rsTokens - withdrawAmount(stake)
           /\ rewardPool' = [rewardPool EXCEPT
                                !.totalRewards = @ + withdrawPenalty(stake)]
    /\ UNCHANGED <<deployed, rrVars, now, sbrVars, evVars, pbrVars, rsPaused,
                   tierThresholds,
                   stakeCounter, pendingRewards, lastRewardClaim,
                   claimedRewards>>

\* msg.sender == address(this) never holds for an external call
updateReputation(sender, user, change, isCorrectVote) ==
    /\ deployed = RS
    /\ change > 0 => reputationProfiles[user].baseReputation
                        <= MaxBaseReputation
    /\ sender = Owner
    /\ LET stored == reputationProfiles[user]
           profile == IF stored.baseReputation = 0
                      THEN [stored EXCEPT
                               !.baseReputation = InitialBaseReputation,
                               !.tier = "Bronze", !.lastUpdate = now]
                      ELSE stored
           changed ==
              IF change > 0
              THEN [profile EXCEPT
                       !.baseReputation = @ + change,
                       !.correctVotes = @ + Bool(isCorrectVote)]
              ELSE [profile EXCEPT
                       !.baseReputation =
                           IF @ >= -change THEN @ - (-change) ELSE 0,
                       !.falseReports = @ + Bool(~isCorrectVote)]
           updated == _updateStakedReputation(changed, userStakes, user,
                                              userStakeCount[user])
       IN  reputationProfiles' = [reputationProfiles EXCEPT ![user] =
              [updated EXCEPT !.tier = _calculateTier(updated.totalReputation)]]
    /\ UNCHANGED <<deployed, rrVars, now, sbrVars, evVars, pbrVars, rsPaused,
                   tierThresholds, tokens,
                   rsTokens, stakeCounter, userStakes, userStakeCount,
                   rewardPool, pendingRewards, lastRewardClaim,
                   claimedRewards>>

slashAmount(stake) == (stake.amount * SLASHING_PENALTY) \div 100

slashUser(sender, user, stakeId, reason) ==
    /\ deployed = RS
    /\ reputationProfiles[user].slashingCount < MaxSlashes
    /\ sender = Owner
    /\ onlyStakeOwner(user, stakeId)
    /\ onlyActiveStake(user, stakeId)
    /\ LET stake == userStakes[user][stakeId]
           stakes == [userStakes EXCEPT
                         ![user][stakeId].amount = @ - slashAmount(stake)]
       IN  /\ userStakes' = stakes
           /\ reputationProfiles' = [reputationProfiles EXCEPT ![user] =
                 _updateStakedReputation(
                    [@ EXCEPT !.slashingCount = @ + 1],
                    stakes, user, userStakeCount[user])]
           /\ rewardPool' = [rewardPool EXCEPT
                                !.totalRewards = @ + slashAmount(stake)]
    /\ UNCHANGED <<deployed, rrVars, now, sbrVars, evVars, pbrVars, rsPaused,
                   tierThresholds, tokens,
                   rsTokens, stakeCounter, userStakeCount, pendingRewards,
                   lastRewardClaim, claimedRewards>>

\* totalDistributed stays 0: the function credits no account
distributeRewards(sender) ==
    /\ deployed = RS
    /\ sender = Owner
    /\ now >= rewardPool.lastDistribution + DistributionInterval
    /\ rewardPool' = [rewardPool EXCEPT !.lastDistribution = now,
                                        !.distributedRewards = @ + 0]
    /\ UNCHANGED <<deployed, rrVars, now, sbrVars, evVars, pbrVars, rsPaused,
                   tierThresholds, tokens,
                   rsTokens, stakeCounter, userStakes, userStakeCount,
                   reputationProfiles, pendingRewards, lastRewardClaim,
                   claimedRewards>>

hasRewards_Unchecked(sender) == TRUE

\* require(rewards > 0)
hasRewards(sender) == pendingRewards[sender] > 0

\* No function of the contract assigns pendingRewards a value other than 0,
\* so the second require fails in every state the contract reaches and the
\* call is no step of NextRS.
claimRewards(sender) ==
    /\ deployed = RS
    /\ ~rsPaused
    /\ now >= lastRewardClaim[sender] + REWARD_CLAIM_COOLDOWN
    /\ hasRewards(sender)
    /\ rsTokens >= pendingRewards[sender]
    /\ pendingRewards' = [pendingRewards EXCEPT ![sender] = 0]
    /\ lastRewardClaim' = [lastRewardClaim EXCEPT ![sender] = now]
    /\ tokens' = [tokens EXCEPT ![sender] = @ + pendingRewards[sender]]
    /\ rsTokens' = rsTokens - pendingRewards[sender]
    /\ claimedRewards' = claimedRewards + pendingRewards[sender]
    /\ UNCHANGED <<deployed, rrVars, now, sbrVars, evVars, pbrVars, rsPaused,
                   tierThresholds,
                   stakeCounter, userStakes, userStakeCount,
                   reputationProfiles, rewardPool>>

updateTierThreshold(sender, tier, threshold) ==
    /\ deployed = RS
    /\ sender = Owner
    /\ tierThresholds' = [tierThresholds EXCEPT ![tier] = threshold]
    /\ UNCHANGED <<deployed, rrVars, now, sbrVars, evVars, pbrVars, rsPaused, tokens,
                   rsTokens, stakeCounter, userStakes, userStakeCount,
                   reputationProfiles, rewardPool, pendingRewards,
                   lastRewardClaim, claimedRewards>>

\* the contract after construction, with storage for the stake ids 1 .. ids
\* and every account holding initialTokens of the staking token
rsDeployed(ids, initialTokens) ==
    /\ rsPaused = FALSE
    /\ tierThresholds = [t \in Tiers |-> initialTierThresholds(t)]
    /\ tokens = [a \in Accounts |-> initialTokens]
    /\ rsTokens = 0
    /\ stakeCounter = 0
    /\ userStakes = [a \in Accounts |-> [i \in 1 .. ids |-> EmptyStake]]
    /\ userStakeCount = [a \in Accounts |-> 0]
    /\ reputationProfiles = [a \in Accounts |-> EmptyProfile]
    /\ rewardPool = [totalRewards |-> 0, distributedRewards |-> 0,
                     lastDistribution |-> 0]
    /\ pendingRewards = [a \in Accounts |-> 0]
    /\ lastRewardClaim = [a \in Accounts |-> 0]
    /\ claimedRewards = 0

rsConstructed == rsDeployed(MaxStakes, InitialTokens)

(***************************************************************************)
(* Specifications                                                          *)
(***************************************************************************)
\* block.timestamp moves between calls
TimeSteps == {VOTING_PERIOD}
MaxElapsed == 1209600

RateTimeSteps == {1800, RATE_LIMIT_WINDOW}
RateMaxElapsed == 7200

TickWithin(d, horizon) ==
    /\ now + d <= StartTime + horizon
    /\ now' = now + d
    /\ UNCHANGED <<deployed, rrVars, sbrVars, evVars, pbrVars, rsVars>>

Tick(d) == TickWithin(d, MaxElapsed)

(***************************************************************************)
(* ReportRegistry                                                          *)
(***************************************************************************)
RR == "ReportRegistry"

ZeroHash == "0x00"
ReportHashes == {ZeroHash, "0xaa", "0xbb"}
RegistryReporters == {"a1"}
RegistryVotersRR == {"a2", "a3", "a4"}

rrEmptyReport ==
    [reportHash |-> ZeroHash, reporter |-> "0x0", timestamp |-> 0,
     voteScore |-> 0, exists |-> FALSE]

rrEmptyVote == [hasVoted |-> FALSE, isUpvote |-> FALSE]

registerReport(sender, reportHash) ==
    /\ deployed = RR
    /\ reportHash # ZeroHash
    /\ ~rrReports[reportHash].exists
    /\ rrReports' = [rrReports EXCEPT ![reportHash] =
          [reportHash |-> reportHash, reporter |-> sender, timestamp |-> now,
           voteScore |-> 0, exists |-> TRUE]]
    /\ reportHashes' = Append(reportHashes, reportHash)
    /\ UNCHANGED <<deployed, now, sbrVars, evVars, pbrVars, rsVars, rrVotes>>

changedVoteScore_ByOne(voteScore, wasUpvote) ==
    IF wasUpvote THEN voteScore - 1 ELSE voteScore + 1

\* the score after a vote has been turned around
changedVoteScore(voteScore, wasUpvote) ==
    IF wasUpvote THEN voteScore - 2 ELSE voteScore + 2

ReportRegistry_vote(sender, reportHash, isUpvote) ==
    /\ deployed = RR
    /\ rrReports[reportHash].exists
    /\ LET userVote == rrVotes[reportHash][sender] IN
       IF userVote.hasVoted
       THEN IF userVote.isUpvote # isUpvote
            THEN /\ rrReports' = [rrReports EXCEPT ![reportHash].voteScore =
                       changedVoteScore(@, userVote.isUpvote)]
                 /\ rrVotes' = [rrVotes EXCEPT
                       ![reportHash][sender].isUpvote = isUpvote]
            ELSE UNCHANGED <<rrReports, rrVotes>>
       ELSE /\ rrVotes' = [rrVotes EXCEPT ![reportHash][sender] =
                  [hasVoted |-> TRUE, isUpvote |-> isUpvote]]
            /\ rrReports' = [rrReports EXCEPT ![reportHash].voteScore =
                  IF isUpvote THEN @ + 1 ELSE @ - 1]
    /\ UNCHANGED <<deployed, now, sbrVars, evVars, pbrVars, rsVars,
                   reportHashes>>

rrConstructed ==
    /\ rrReports = [h \in ReportHashes |-> rrEmptyReport]
    /\ rrVotes = [h \in ReportHashes |-> [a \in Accounts |-> rrEmptyVote]]
    /\ reportHashes = <<>>

Constructed ==
    /\ now = StartTime
    /\ rrConstructed
    /\ sbrConstructed
    /\ evConstructed
    /\ pbrConstructed
    /\ rsConstructed

InitSBR == deployed = SBR /\ Constructed

InitEV == deployed = EV /\ Constructed

NextSBR ==
    \/ \E a \in Accounts : registerValidator(a)
    \/ \E a \in ReporterAccounts, v \in {0, REPORT_STAKE}, t, tv, d \in Strings :
           submitReportWithStake(a, v, t, tv, d)
    \/ \E a \in Accounts, r \in 0 .. MaxReports + 1, b \in BOOLEAN,
          v \in {0, VOTING_STAKE} :
           voteOnReport(a, r, b, v)
    \/ \E d \in TimeSteps : Tick(d)

NextEV ==
    \/ \E a \in EvidenceSubmitters, h \in Hashes, sz \in FileSizes,
          m, d \in Strings :
           submitEvidence(a, h, sz, m, d)
    \/ \E a \in Accounts, e \in 0 .. MaxEvidence + 1, b \in BOOLEAN,
          reason \in Strings :
           validateEvidence(a, e, b, reason, "Basic")
    \/ \E a \in Accounts, v \in Accounts, rep \in InitialReputations :
           authorizeValidator(a, v, rep)
    \/ \E a \in Accounts, e \in 0 .. MaxEvidence + 1, st \in EmergencyStatuses :
           emergencyUpdateEvidenceStatus(a, e, st)
    \/ \E d \in TimeSteps : Tick(d)

SpecSBR == InitSBR /\ [][NextSBR]_vars

\* StakeBasedReportRegistry with its administrative withdrawal
NextLapse ==
    \/ NextSBR
    \/ \E a \in Accounts : emergencyWithdraw(a)

SpecLapse == InitSBR /\ [][NextLapse]_vars

\* StakeBasedReportRegistry late in its life: account a2 registered long ago
\* and has been on the losing side of every report it voted on, each of them
\* rejected two to one among a2 and accounts outside Accounts and settled in
\* full, so that a2's reputation has come down from
\* InitialValidatorReputation to VeteranReputation
VeteranReputation == 2

VeteranValidator ==
    [reputation |-> VeteranReputation,
     totalValidations |-> InitialValidatorReputation - VeteranReputation,
     correctValidations |-> 0, isActive |-> TRUE]

InitVeteran ==
    /\ deployed = SBR
    /\ now = StartTime
    /\ ether = [a \in Accounts |-> InitialEther]
    /\ balance = 0
    /\ reports = <<>>
    /\ validators =
          [a \in Accounts |-> IF a = "a2" THEN VeteranValidator
                              ELSE EmptyValidator]
    /\ evConstructed
    /\ pbrConstructed
    /\ rsConstructed
    /\ rrConstructed

SpecVeteran == InitVeteran /\ [][NextSBR]_vars

SpecEV == InitEV /\ [][NextEV]_vars

\* EvidenceValidator driven by submissions and validations alone; validators
\* are authorized, which touches no evidence item, and time passes
NextEVCalls ==
    \/ \E a \in EvidenceSubmitters, h \in Hashes, sz \in FileSizes,
          m, d \in Strings :
           submitEvidence(a, h, sz, m, d)
    \/ \E a \in Accounts, e \in 0 .. MaxEvidence + 1, b \in BOOLEAN,
          reason \in Strings :
           validateEvidence(a, e, b, reason, "Basic")
    \/ \E a \in Accounts, v \in Accounts, rep \in InitialReputations :
           authorizeValidator(a, v, rep)
    \/ \E d \in TimeSteps : Tick(d)

SpecEVCalls == InitEV /\ [][NextEVCalls]_vars

InitPBR == deployed = PBR /\ Constructed

InitRS == deployed = RS /\ Constructed

NextPBR ==
    \/ \E a \in Accounts, u, w, d, h \in Strings, t \in EvidenceTypes :
           Len(pbReports) < MaxVariedReports /\ submitReport(a, u, w, d, h, t)
    \/ \E a \in Accounts, t \in Strings, isUrl \in BOOLEAN :
           addToBlacklist(a, t, isUrl)
    \/ \E a \in Accounts, t \in Strings, isUrl \in BOOLEAN :
           removeFromBlacklist(a, t, isUrl)
    \/ \E a \in Accounts, u \in RegistryUsers, rep \in NewReputations :
           emergencyUpdateReputation(a, u, rep)
    \/ \E d \in TimeSteps : Tick(d)

NextRS ==
    \/ \E a \in Accounts, amt \in StakeAmounts, p \in LockPeriods,
          t \in StakeTypes :
           depositStake(a, amt, p, t)
    \/ \E a \in Accounts, i \in 0 .. MaxStakes + 1 : withdrawStake(a, i)
    \/ \E a \in Accounts, u \in Stakers, c \in ReputationChanges :
           updateReputation(a, u, c[1], c[2])
    \/ \E a \in Accounts, u \in Accounts, i \in 0 .. MaxStakes + 1,
          reason \in {"x"} :
           slashUser(a, u, i, reason)
    \/ \E a \in Accounts : distributeRewards(a)
    \/ \E a \in Accounts, u \in ThresholdUpdates :
           updateTierThreshold(a, u[1], u[2])
    \/ \E d \in TimeSteps : Tick(d)

\* the tier of a profile under every setting of the thresholds
NextTier ==
    \/ \E a \in Accounts, t \in Tiers, v \in TierThresholdValues :
           updateTierThreshold(a, t, v)
    \/ \E a \in Accounts, u \in Stakers, c \in ReputationChanges :
           updateReputation(a, u, c[1], c[2])

\* one kind of report, submitted at a half-window pace
NextRate ==
    \/ \E a \in Accounts : submitReport(a, "x", "", "x", "x", "URL")
    \/ \E a \in Accounts :
           emergencyUpdateReputation(a, "a4", MIN_REPUTATION_TO_REPORT)
    \/ \E d \in RateTimeSteps : TickWithin(d, RateMaxElapsed)

\* the community's side of the registry on reports of one kind submitted
\* by the owner: votes, with the owner moving statuses and reputations in
\* between
MaxCommunityReports == 1
MaxReporterReputation == 102
VoterReputations == {MIN_REPUTATION_TO_VOTE - 1, MIN_REPUTATION_TO_VOTE, 30}
RegistryVoters == {"a2", "a3"}
VoteStatuses == {"Verified", "Resolved"}

NextVote ==
    \/ /\ Len(pbReports) < MaxCommunityReports
       /\ submitReport(Owner, "x", "", "x", "x", "URL")
    \/ \E a \in Accounts, r \in 0 .. MaxCommunityReports + 1, b \in BOOLEAN :
           vote(a, r, b)
    \/ \E a \in Accounts, r \in 0 .. MaxCommunityReports + 1,
          st \in VoteStatuses :
           /\ r \in DOMAIN pbReports =>
                 userReputation[pbReports[r].reporter] < MaxReporterReputation
           /\ updateReportStatus(a, r, st)
    \/ \E a \in Accounts, u \in RegistryVoters, v \in VoterReputations :
           emergencyUpdateReputation(a, u, v)
    \/ \E d \in TimeSteps : Tick(d)

\* disputes, raised up to and beyond the dispute period
MaxDisputes == 2
DisputeMaxElapsed == 1814400
DisputerReputations == {MIN_REPUTATION_TO_VOTE - 1, MIN_REPUTATION_TO_VOTE}
DisputeStatuses == {"Disputed", "Resolved"}

MinReporterReputation == 95

NextDispute ==
    \/ /\ Len(pbReports) < MaxCommunityReports
       /\ submitReport(Owner, "x", "", "x", "x", "URL")
    \/ \E r \in 0 .. MaxCommunityReports + 1, b \in BOOLEAN :
           vote("a2", r, b)
    \/ \E a \in Accounts, r \in 0 .. MaxCommunityReports + 1,
          reason \in Strings :
           /\ r \in DOMAIN pbDisputes => Len(pbDisputes[r]) < MaxDisputes
           /\ raiseDispute(a, r, reason)
    \/ \E a \in Accounts, r \in 0 .. MaxCommunityReports + 1,
          st \in DisputeStatuses :
           /\ r \in DOMAIN pbReports =>
                 userReputation[pbReports[r].reporter] > MinReporterReputation
           /\ updateReportStatus(a, r, st)
    \/ \E a \in Accounts, u \in RegistryVoters, v \in DisputerReputations :
           emergencyUpdateReputation(a, u, v)
    \/ \E d \in TimeSteps : TickWithin(d, DisputeMaxElapsed)

\* one account staking up to and beyond MAX_STAKES_PER_USER
MaxLimitStakes == 11

InitLimit ==
    /\ deployed = RS
    /\ now = StartTime
    /\ sbrConstructed
    /\ evConstructed
    /\ pbrConstructed
    /\ rrConstructed
    /\ rsDeployed(MaxLimitStakes, MaxLimitStakes * MIN_STAKE_AMOUNT)

NextLimit ==
    \/ \E a \in Accounts : updateReputation(a, "a2", 10, FALSE)
    \/ \E a \in Accounts :
           depositStake(a, MIN_STAKE_AMOUNT, MIN_STAKE_PERIOD, "Report")
    \/ \E a \in Accounts, i \in 0 .. MaxLimitStakes + 1 : withdrawStake(a, i)
    \/ \E a \in Accounts, u \in Accounts, i \in 0 .. MaxLimitStakes + 1 :
           slashUser(a, u, i, "x")

InitRR == deployed = RR /\ Constructed

NextRR ==
    \/ \E a \in RegistryReporters, h \in ReportHashes : registerReport(a, h)
    \/ \E a \in RegistryVotersRR, h \in ReportHashes, b \in BOOLEAN :
           ReportRegistry_vote(a, h, b)
    \/ \E d \in TimeSteps : Tick(d)

SpecPBR == InitPBR /\ [][NextPBR]_vars

SpecRR == InitRR /\ [][NextRR]_vars

SpecLimit == InitLimit /\ [][NextLimit]_vars

SpecVote == InitPBR /\ [][NextVote]_vars

SpecDispute == InitPBR /\ [][NextDispute]_vars

SpecRate == InitPBR /\ [][NextRate]_vars

SpecRS == InitRS /\ [][NextRS]_vars

SpecTier == InitRS /\ [][NextTier]_vars

\* either registry that takes reports
SpecSubmit == (InitSBR \/ InitPBR) /\ [][NextSBR \/ NextPBR]_vars

\* either contract: the report registry or the evidence validator
SpecVoting == (InitSBR \/ InitEV) /\ [][NextSBR \/ NextEV]_vars

(***************************************************************************)
(* Properties of StakeBasedReportRegistry                                  *)
(***************************************************************************)
VoteInputs == Accounts \X BOOLEAN \X {0, VOTING_STAKE}

\* everything the contract holds on account of report r
ReportFunds(r) ==
    reports[r].stakeAmount + SumOver(reports[r].validatorStakes, Accounts)

PendingReports == {r \in DOMAIN reports : reports[r].status = "Pending"}

Voters(r) == {a \in Accounts : reports[r].votes[a] # "None"}

\* in this step account a cast its vote on report r
IsNewVoter(r, a) ==
    reports[r].votes[a] = "None" /\ reports'[r].votes[a] # "None"

BecomesStatus(r, st) ==
    reports[r].status = "Pending" /\ reports'[r].status = st

\* C1: a report's status leaves Pending at most once, to Validated or
\* Rejected; on a report that is not Pending every voteOnReport is rejected
\* by its require statements, none can succeed, and no step changes the
\* report's tallies, voter list or any other field.
C1_TerminalOnce ==
    [][\A r \in DOMAIN reports :
         /\ reports'[r].status # reports[r].status
               => /\ reports[r].status = "Pending"
                  /\ reports'[r].status \in {"Validated", "Rejected"}
         /\ reports[r].status # "Pending"
               => /\ reports'[r] = reports[r]
                  /\ \A i \in VoteInputs :
                        /\ ~voteRequires(i[1], r, i[3])
                        /\ ~ENABLED voteOnReport(i[1], r, i[2], i[3])]_vars

\* a finalized report while a registered validator that has not voted on it
\* is still within the voting period
C1_Witness ==
    \E r \in DOMAIN reports, a \in Accounts :
        /\ reports[r].status # "Pending"
        /\ now <= reports[r].votingDeadline
        /\ validators[a].isActive
        /\ reports[r].votes[a] = "None"
        /\ ether[a] >= VOTING_STAKE

\* C2: the contract's ether balance is the sum, over the Pending reports, of
\* the reporter's stake and the voting stakes recorded for the report.
C2_BalanceIsPendingStakes ==
    balance = SumOver([r \in DOMAIN reports |-> ReportFunds(r)], PendingReports)

\* C6: the step that finalizes a report as Validated pays the reporter
\* stakeAmount + REPORTER_REWARD, every validator who voted valid their voting
\* stake + VALIDATOR_REWARD and every validator who voted invalid their voting
\* stake, each once (the caller having paid VOTING_STAKE with the call).
C6_ValidatedPayout ==
    [][\A r \in DOMAIN reports :
         BecomesStatus(r, "Validated") =>
            \A a \in Accounts :
               ether'[a] = ether[a]
                  - (IF IsNewVoter(r, a) THEN VOTING_STAKE ELSE 0)
                  + (IF a = reports[r].reporter
                     THEN reports[r].stakeAmount + REPORTER_REWARD ELSE 0)
                  + (CASE reports'[r].votes[a] = "Valid"
                            -> reports'[r].validatorStakes[a] + VALIDATOR_REWARD
                       [] reports'[r].votes[a] = "Invalid"
                            -> reports'[r].validatorStakes[a]
                       [] OTHER -> 0)]_vars

\* a Validated report with a valid and an invalid voter
C6_Witness ==
    \E r \in DOMAIN reports :
        /\ reports[r].status = "Validated"
        /\ \E a, b \in Accounts :
              reports[r].votes[a] = "Valid" /\ reports[r].votes[b] = "Invalid"

\* the payments of the step that finalizes report r as Rejected, with the
\* given share of the reporter's stake for every validator who voted invalid
RejectedPayments(r, share) ==
    \A a \in Accounts :
       ether'[a] = ether[a]
          - (IF IsNewVoter(r, a) THEN VOTING_STAKE ELSE 0)
          + (CASE reports'[r].votes[a] = "Invalid"
                    -> reports'[r].validatorStakes[a] + share
               [] reports'[r].votes[a] = "Valid"
                    -> reports'[r].validatorStakes[a]
               [] OTHER -> 0)

InvalidVoters(r) == {a \in Accounts : reports'[r].votes[a] = "Invalid"}

\* C7 as stated: on Rejected the reporter receives nothing, valid voters get
\* their own stake, and the invalid voters get equal shares that add up to
\* the reporter's stake, so that nothing of the report stays in the contract.
C7_RejectedSplitsWholeStake ==
    [][\A r \in DOMAIN reports :
         BecomesStatus(r, "Rejected") =>
            \E share \in 0 .. reports[r].stakeAmount :
               /\ share * Cardinality(InvalidVoters(r)) = reports[r].stakeAmount
               /\ RejectedPayments(r, share)
               /\ balance' = balance + VOTING_STAKE
                               - SumOver(reports'[r].validatorStakes, Accounts)
                               - reports[r].stakeAmount]_vars

\* what _redistributeStake does: every invalid voter gets
\* floor(stakeAmount / n) on top of the own voting stake, n being the number
\* of invalid voters, and the remainder stakeAmount mod n stays in the
\* contract, on account of no report.
RejectedSplitsFloor ==
    [][\A r \in DOMAIN reports :
         BecomesStatus(r, "Rejected") =>
            LET n == Cardinality(InvalidVoters(r)) IN
            /\ n > 0
            /\ RejectedPayments(r, reports[r].stakeAmount \div n)
            /\ balance' = balance + VOTING_STAKE
                            - SumOver(reports'[r].validatorStakes, Accounts)
                            - reports[r].stakeAmount
                            + (reports[r].stakeAmount % n)]_vars

\* a Rejected report all of whose three voters voted invalid
C7_Witness ==
    \E r \in DOMAIN reports :
        /\ reports[r].status = "Rejected"
        /\ reports[r].invalidVotes = MIN_VALIDATORS

\* C8: a Pending report has fewer than MIN_VALIDATORS recorded voters.
C8_PendingBelowQuorum ==
    \A r \in DOMAIN reports :
        reports[r].status = "Pending"
            => Len(reports[r].validators) < MIN_VALIDATORS

\* the vote that brought the voter count to MIN_VALIDATORS has finalized
C8_Witness ==
    \E r \in DOMAIN reports :
        /\ Len(reports[r].validators) = MIN_VALIDATORS
        /\ reports[r].status \in {"Validated", "Rejected"}

\* C9: once the voting deadline has passed with fewer than MIN_VALIDATORS
\* votes, reading the report returns status Expired.
C9_ExpiredAfterDeadline ==
    \A r \in DOMAIN reports :
        (now > reports[r].votingDeadline
            /\ Len(reports[r].validators) < MIN_VALIDATORS)
        => getReport(r) = "Expired"

(***************************************************************************)
(* Properties of voting and validation (StakeBasedReportRegistry and       *)
(* EvidenceValidator)                                                      *)
(***************************************************************************)
ValidateInputs == BOOLEAN \X {"x"} \X {"Basic"}

\* the number of entries of validator a in the validationResults of item e
EntriesOf(e, a) ==
    BagCardinality(BagOfAll(LAMBDA x : x.validator, validationResults[e])
                   (-) (BagOfAll(LAMBDA x : x.validator, validationResults[e])
                        (-) SetToBag({a})))

TimesListed(r, a) ==
    Cardinality({i \in DOMAIN reports[r].validators :
                    reports[r].validators[i] = a})

\* C4: no account is recorded twice as a voter of a report or as a validator
\* of an evidence item; once it is recorded, every further voteOnReport /
\* validateEvidence of the account on that report / item is rejected, so the
\* tallies, the lists and the funds stay as they are.
C4_NoDoubleVoting ==
    /\ \A r \in DOMAIN reports, a \in Accounts :
          /\ TimesListed(r, a) = Bool(reports[r].votes[a] # "None")
          /\ reports[r].votes[a] # "None" =>
                \A i \in VoteInputs :
                   i[1] = a =>
                      /\ ~voteRequires(a, r, i[3])
                      /\ ~ENABLED voteOnReport(a, r, i[2], i[3])
    /\ \A e \in DOMAIN evidence, a \in Accounts :
          /\ EntriesOf(e, a) = Bool(evidence[e].validators[a])
          /\ evidence[e].validators[a] =>
                \A i \in ValidateInputs :
                   ~ENABLED validateEvidence(a, e, i[1], i[2], i[3])

\* an account has voted on a report that is still open for voting, and has
\* the ether to vote again
C4_WitnessReport ==
    \E r \in DOMAIN reports, a \in Accounts :
        /\ reports[r].votes[a] # "None"
        /\ reports[r].status = "Pending"
        /\ now <= reports[r].votingDeadline
        /\ ether[a] >= VOTING_STAKE

\* an authorized validator has validated an item that is still open
C4_WitnessEvidence ==
    \E e \in DOMAIN evidence, a \in Accounts :
        /\ evidence[e].validators[a]
        /\ onlyAuthorizedValidator(a)
        /\ onlyPendingEvidence(e)
        /\ now <= evidence[e].timestamp + VALIDATION_TIMEOUT

\* C5: the step that finalizes decides by strict majority of the plain
\* counts: Validated iff validVotes > invalidVotes (a report), iff
\* positiveValidations > negativeValidations (an evidence item); Rejected in
\* every other case, equal counts included.
C5_StrictMajority ==
    [][/\ \A r \in DOMAIN reports :
            reports'[r].status # reports[r].status =>
               reports'[r].status =
                  IF reports'[r].validVotes > reports'[r].invalidVotes
                  THEN "Validated" ELSE "Rejected"
       /\ \A e \in DOMAIN evidence :
            (/\ evidence'[e].validationCount = evidence[e].validationCount + 1
             /\ evidence'[e].validationCount >= MIN_VALIDATIONS_REQUIRED) =>
               evidence'[e].status =
                  IF evidence'[e].positiveValidations
                        > evidence'[e].negativeValidations
                  THEN "Validated" ELSE "Rejected"]_vars

\* an evidence item finalized with equal counts
C5_WitnessTie ==
    \E e \in DOMAIN evidence :
        /\ evidence[e].validationCount >= MIN_VALIDATIONS_REQUIRED
        /\ evidence[e].positiveValidations = evidence[e].negativeValidations
        /\ evidence[e].status = "Rejected"

\* a report finalized as Rejected and one finalized as Validated
C5_WitnessReport ==
    \E r \in DOMAIN reports :
        /\ reports[r].status = "Validated"
        /\ reports[r].validVotes = 2
        /\ reports[r].invalidVotes = 1

(***************************************************************************)
(* Properties of report submission (PhishBlockRegistry and                 *)
(* StakeBasedReportRegistry)                                               *)
(***************************************************************************)
SubmitInputs == Strings \X Strings \X Strings \X Strings \X EvidenceTypes

StakeSubmitInputs == {0, REPORT_STAKE} \X Strings \X Strings \X Strings

\* every submitReport call of account a reverts
RegistryRejects(a) ==
    \A i \in SubmitInputs : ~ENABLED submitReport(a, i[1], i[2], i[3], i[4], i[5])

\* every submitReportWithStake call of account a reverts
StakeRegistryRejects(a) ==
    \A i \in StakeSubmitInputs :
       ~ENABLED submitReportWithStake(a, i[1], i[2], i[3], i[4])

ActiveAmount(a, i) ==
    IF userStakes[a][i].active THEN userStakes[a][i].amount ELSE 0

\* the sum of the amounts of all active stakes
ActiveStaked ==
    SumOver([a \in Accounts |->
               SumOver([i \in StakeIds |-> ActiveAmount(a, i)], StakeIds)],
            Accounts)

\* C3: the staking token the contract holds is the sum of the amounts of the
\* active stakes plus rewardPool.totalRewards minus what claimRewards has
\* paid out (nothing: no claimRewards call succeeds); the user balances and
\* the contract balance together stay at the initial total.
C3_TokenConservation ==
    /\ rsTokens = ActiveStaked + rewardPool.totalRewards - claimedRewards
    /\ SumOver(tokens, Accounts) + rsTokens
          = Cardinality(Accounts) * InitialTokens
    /\ \A a \in Accounts : ~ENABLED claimRewards(a)

\* a slashed stake is still active, another stake was withdrawn, and the
\* reward pool has received a slash and an early-withdrawal penalty
C3_Witness ==
    /\ \E a \in Accounts, i \in StakeIds :
          /\ userStakes[a][i].active
          /\ userStakes[a][i].amount < MIN_STAKE_AMOUNT
    /\ \E a \in Accounts, i \in StakeIds :
          /\ ~userStakes[a][i].active
          /\ userStakes[a][i].amount > 0
    /\ rewardPool.totalRewards
          = 2 * ((MIN_STAKE_AMOUNT * SLASHING_PENALTY) \div 100)

(***************************************************************************)
(* Properties of PhishBlockRegistry                                        *)
(***************************************************************************)
\* the reports of account a among the reports i .. j
ReportsOfBetween(a, i, j) ==
    {k \in i .. j : pbReports[k].reporter = a}

\* C11: among any MAX_SUBMISSIONS_PER_WINDOW + 1 accepted submissions of one
\* account the first and the last are at least RATE_LIMIT_WINDOW apart, and
\* while the rate limit rejects an account every submitReport of it reverts
\* (so submissionCount and lastSubmissionTime stay as they are).
C11_RateLimit ==
    \A a \in Accounts :
       /\ \A i, j \in DOMAIN pbReports :
             (/\ i < j
              /\ pbReports[i].reporter = a
              /\ pbReports[j].reporter = a
              /\ Cardinality(ReportsOfBetween(a, i, j))
                    >= MAX_SUBMISSIONS_PER_WINDOW + 1)
                => pbReports[j].timestamp - pbReports[i].timestamp
                      >= RATE_LIMIT_WINDOW
       /\ ~rateLimited(a) => RegistryRejects(a)

\* an account with MAX_SUBMISSIONS_PER_WINDOW + 1 accepted reports that only
\* the rate limit stops from submitting again
C11_Witness ==
    \E a \in Accounts :
       /\ Cardinality(ReportsOfBetween(a, 1, Len(pbReports)))
             >= MAX_SUBMISSIONS_PER_WINDOW + 1
       /\ ~rateLimited(a)
       /\ onlyValidReporter(a)
       /\ ~pbPaused
       /\ Len(pbReports) < MaxRegistryReports

\* the blacklist entries a step changes
ChangedEntries(before, after) == (before \ after) \cup (after \ before)

\* C12: submitReport with a non-empty blacklisted URL or a non-empty
\* blacklisted wallet reverts; a step that changes a blacklist changes one
\* entry of one list and nothing else of the registry: every report keeps
\* its status, tallies and fields, also a report on the target now listed.
C12_BlacklistAtSubmissionOnly ==
    [][/\ \A a \in Accounts, i \in SubmitInputs :
            (\/ i[1] # "" /\ i[1] \in urlBlacklist
             \/ i[2] # "" /\ i[2] \in walletBlacklist)
               => ~ENABLED submitReport(a, i[1], i[2], i[3], i[4], i[5])
       /\ (urlBlacklist' # urlBlacklist \/ walletBlacklist' # walletBlacklist)
            => /\ Cardinality(ChangedEntries(urlBlacklist, urlBlacklist'))
                  + Cardinality(ChangedEntries(walletBlacklist,
                                               walletBlacklist')) = 1
               /\ UNCHANGED <<pbReports, pbPaused, userReputation,
                              lastSubmissionTime, submissionCount>>]_vars

\* a report whose wallet was blacklisted after its submission is still
\* there, Pending, while an account that could otherwise submit exists
C12_Witness ==
    \E r \in DOMAIN pbReports :
       /\ pbReports[r].targetWallet # ""
       /\ pbReports[r].targetWallet \in walletBlacklist
       /\ pbReports[r].status = "Pending"
       /\ Len(pbReports) < MaxVariedReports
       /\ \E a \in Accounts : onlyValidReporter(a) /\ rateLimited(a)

(***************************************************************************)
(* Properties of the reputation profiles (ReputationSystem)                *)
(***************************************************************************)
\* the sum of the amounts of the active stakes of account a
ActiveStakedOf(a) == SumOver([i \in StakeIds |-> ActiveAmount(a, i)], StakeIds)

\* C13: every account's stakedReputation is the sum of the amounts of its
\* active stakes, in whole tokens.
C13_StakedReputationIsActiveSum ==
    \A a \in Accounts :
       reputationProfiles[a].stakedReputation = ActiveStakedOf(a) \div TOKEN

\* C14: every account's stored tier is the tier _calculateTier gives for its
\* stored totalReputation under the current thresholds.
C14_TierUpToDate ==
    \A a \in Accounts :
       reputationProfiles[a].tier
          = _calculateTier(reputationProfiles[a].totalReputation)

TierRank(tier) ==
    CASE tier = "Bronze" -> 0
      [] tier = "Silver" -> 1
      [] tier = "Gold" -> 2
      [] tier = "Platinum" -> 3
      [] tier = "Diamond" -> 4

\* values of totalReputation around every threshold
TierSamples == {0, 19, 20, 21, 49, 50, 99, 100, 249, 250, 499, 500, 501}

\* the tiers whose threshold is at most totalReputation
Qualifying(totalReputation) ==
    {t \in Tiers : tierThresholds[t] <= totalReputation}

IsHighestQualifying(tier, totalReputation) ==
    /\ tier \in Qualifying(totalReputation)
    /\ \A t \in Qualifying(totalReputation) : TierRank(t) <= TierRank(tier)

TierNonDecreasing ==
    \A x, y \in TierSamples :
       x <= y => TierRank(_calculateTier(x)) <= TierRank(_calculateTier(y))

Withdrawn(a, i) == userStakes[a][i].active /\ ~userStakes'[a][i].active

TenPercent(amount) == (amount * SLASHING_PENALTY) \div 100

\* C16: a withdrawal of an active stake pays the whole amount and leaves the
\* reward pool alone once now >= timestamp + lockPeriod, and before that
\* pays the amount less 10% and adds that 10% to rewardPool.totalRewards;
\* the stake is inactive afterwards and no withdrawStake of an inactive
\* stake can succeed.
C16_WithdrawPayout ==
    [][\A a \in Accounts, i \in StakeIds :
         /\ Withdrawn(a, i) =>
               LET stake == userStakes[a][i]
                   matured == now >= stake.timestamp + stake.lockPeriod
                   penalty == IF matured THEN 0 ELSE TenPercent(stake.amount)
               IN  /\ tokens'[a] = tokens[a] + stake.amount - penalty
                   /\ rsTokens' = rsTokens - (stake.amount - penalty)
                   /\ rewardPool'.totalRewards
                         = rewardPool.totalRewards + penalty
                   /\ \A b \in Accounts \ {a} : tokens'[b] = tokens[b]
         /\ ~userStakes[a][i].active =>
               /\ ~ENABLED withdrawStake(a, i)
               /\ ~userStakes'[a][i].active \/ userStakes[a][i].amount = 0
         /\ userStakes[a][i].active => ENABLED withdrawStake(a, i)]_vars

\* one stake was withdrawn before its lock period ended and another one
\* after it: one penalty is in the reward pool
C16_Witness ==
    \E a, b \in Accounts, i, j \in StakeIds :
       /\ i # j
       /\ ~userStakes[a][i].active /\ userStakes[a][i].amount = MIN_STAKE_AMOUNT
       /\ ~userStakes[b][j].active /\ userStakes[b][j].amount = MIN_STAKE_AMOUNT
       /\ rewardPool.totalRewards = TenPercent(MIN_STAKE_AMOUNT)

(***************************************************************************)
(* Properties of updateReputation (ReputationSystem)                       *)
(***************************************************************************)
Min(x, y) == IF x <= y THEN x ELSE y

\* C17: updateReputation(user, change, isCorrect) moves baseReputation by
\* exactly +change when change > 0 and by exactly -min(|change|,
\* baseReputation) when change < 0, from every prior baseReputation, 0
\* included; a negative change never increases it.
C17_ExactChange ==
    [][\A u \in Accounts, c \in ReputationChanges :
         updateReputation(Owner, u, c[1], c[2]) =>
            LET base == reputationProfiles[u].baseReputation IN
            reputationProfiles'[u].baseReputation =
               IF c[1] > 0 THEN base + c[1] ELSE base - Min(-c[1], base)]_vars

(***************************************************************************)
(* Properties of the evidence store (EvidenceValidator)                    *)
(***************************************************************************)
UsedHashes == {evidence[e].ipfsHash : e \in DOMAIN evidence}

\* C18: no two evidence items carry the same content hash, and
\* submitEvidence with a hash that an earlier accepted submission used
\* fails for every sender and every other argument, so that the evidence
\* count and the stored items stay as they are.
C18_UniqueContentHash ==
    /\ \A e, f \in DOMAIN evidence :
          evidence[e].ipfsHash = evidence[f].ipfsHash => e = f
    /\ UsedHashes = knownIPFSHashes
    /\ \A h \in UsedHashes, a \in Accounts, sz \in FileSizes, m, d \in Strings :
          ~ENABLED submitEvidence(a, h, sz, m, d)

\* an item is stored, there is room for another one and the contract is not
\* paused, so that only the hash check stands between a second submission
\* of the same hash and its acceptance
C18_Witness ==
    /\ deployed = EV
    /\ Len(evidence) = 1
    /\ Len(evidence) < MaxEvidence
    /\ ~evPaused
    /\ evidence[1].ipfsHash \in knownIPFSHashes
    /\ ~ENABLED submitEvidence("a4", evidence[1].ipfsHash, 1024, "x", "x")
    /\ \E h \in Hashes : ENABLED submitEvidence("a4", h, 1024, "x", "x")

Finalized(ev) == ev.status \in {"Validated", "Rejected"}

\* C19: with submitEvidence and validateEvidence as the only calls that
\* touch evidence, the status of an item changes at most once: from Pending
\* to Validated or Rejected, in the validateEvidence call that brings its
\* validation count to MIN_VALIDATIONS_REQUIRED.  From then on
\* validateEvidence on the item fails for every caller and the item and its
\* validations stay as they are.
C19_LeavesPendingOnce ==
    /\ [](\A e \in DOMAIN evidence :
            /\ evidence[e].status \in {"Pending", "Validated", "Rejected"}
            /\ evidence[e].status = "Pending" <=>
                  evidence[e].validationCount < MIN_VALIDATIONS_REQUIRED
            /\ evidence[e].status # "Pending" =>
                  \A a \in Accounts, b \in BOOLEAN, reason \in Strings :
                     ~ENABLED validateEvidence(a, e, b, reason, "Basic"))
    /\ [][\A e \in DOMAIN evidence :
            /\ evidence'[e].status # evidence[e].status =>
                  /\ evidence[e].status = "Pending"
                  /\ Finalized(evidence'[e])
                  /\ evidence[e].validationCount = MIN_VALIDATIONS_REQUIRED - 1
                  /\ evidence'[e].validationCount = MIN_VALIDATIONS_REQUIRED
            /\ evidence[e].status # "Pending" =>
                  /\ evidence'[e] = evidence[e]
                  /\ validationResults'[e] = validationResults[e]]_vars

\* an item has been finalized by its third validation while a fourth
\* authorized validator of sufficient reputation, who has not validated it,
\* stands ready within the validation period: only the status stops the call
C19_Witness ==
    /\ deployed = EV
    /\ ~evPaused
    /\ \E e \in DOMAIN evidence, a \in Accounts :
          /\ Finalized(evidence[e])
          /\ evidence[e].validationCount = MIN_VALIDATIONS_REQUIRED
          /\ onlyAuthorizedValidator(a)
          /\ notYetValidated(a, e)
          /\ now <= evidence[e].timestamp + VALIDATION_TIMEOUT
          /\ ~ENABLED validateEvidence(a, e, TRUE, "x", "Basic")

\* validationCount only grows, by validateEvidence, which finalizes the item
\* whenever the count has reached MIN_VALIDATIONS_REQUIRED: an item has been
\* finalized exactly if its count is at least that
HasBeenFinalized(ev) == ev.validationCount >= MIN_VALIDATIONS_REQUIRED

\* C20: once an evidence item has been finalized to Validated or Rejected,
\* its positive and negative counts and its validations never change again,
\* whatever operations of EvidenceValidator follow,
\* emergencyUpdateEvidenceStatus included.
C20_ImmutableOnceFinalized ==
    [][\A e \in DOMAIN evidence :
         HasBeenFinalized(evidence[e]) =>
            /\ evidence'[e].positiveValidations =
                  evidence[e].positiveValidations
            /\ evidence'[e].negativeValidations =
                  evidence[e].negativeValidations
            /\ evidence'[e].validationCount = evidence[e].validationCount
            /\ validationResults'[e] = validationResults[e]]_vars

(***************************************************************************)
(* Validator reputation (EvidenceValidator)                                *)
(***************************************************************************)
\* the reputation a validator holds before any validation: the constructor
\* gives the owner OwnerValidatorReputation, authorizeValidator gives the
\* others their initial reputation
BaseValidatorReputation(a) ==
    IF a = Owner THEN OwnerValidatorReputation
    ELSE IF authorizedValidators[a] THEN CHOOSE rep \in InitialReputations : TRUE
    ELSE 0

VerdictsOf(a, e) == {r \in BagToSet(validationResults[e]) : r.validator = a}

MatchesOutcome(a, e) ==
    \E r \in VerdictsOf(a, e) :
       r.isValid <=> (evidence[e].status = "Validated")

\* C21: a validator's reputation grows on account of an evidence item
\* exactly when the validator's verdict matches the item's final outcome:
\* once every item a validator has judged is finalized, the validator holds
\* the base reputation plus one reward per item judged correctly, and
\* nothing for the items judged wrongly.
C21_RewardIffCorrect ==
    \A a \in Accounts :
       (\A e \in DOMAIN evidence :
           evidence[e].validators[a] => Finalized(evidence[e]))
       => validatorReputation[a] = BaseValidatorReputation(a)
             + REPUTATION_REWARD_VALIDATION
                 * Cardinality({e \in DOMAIN evidence : MatchesOutcome(a, e)})

(***************************************************************************)
(* Validator records at finalization (StakeBasedReportRegistry)            *)
(***************************************************************************)
FinalizedInStep(r) ==
    /\ r \in DOMAIN reports
    /\ reports[r].status = "Pending"
    /\ reports'[r].status \in {"Validated", "Rejected"}

VotedOn(report, a) == \E i \in DOMAIN report.validators : report.validators[i] = a

\* the validator records after the finalization of report, given what a
\* losing vote does to a reputation
RecordsAfter(report, a, Loss(_)) ==
    IF ~VotedOn(report, a) THEN validators[a]
    ELSE [validators[a] EXCEPT
            !.totalValidations = @ + 1,
            !.correctValidations = @ + Bool(voteCorrect(report, a)),
            !.reputation = IF voteCorrect(report, a) THEN @ + 1 ELSE Loss(@)]

MinusOne(reputation) == reputation - 1

MinusOneAboveOne(reputation) == IF reputation > 1 THEN reputation - 1 ELSE 1

IsPrefix(s, t) == Len(s) <= Len(t) /\ \A i \in DOMAIN s : s[i] = t[i]

\* C23: raiseDispute succeeds only when the caller is not the report's
\* reporter and now <= report.timestamp + DISPUTE_TIMEOUT; on success it
\* appends one entry to the report's dispute log, increases disputeCount by
\* 1 and leaves status, upvotes and downvotes as they are; disputeCount
\* always equals the length of the log, and no entry of the log is ever
\* removed or altered.
C23_DisputeLog ==
    /\ [](\A r \in DOMAIN pbReports :
            /\ pbReports[r].disputeCount = Len(pbDisputes[r])
            /\ \A a \in Accounts, reason \in Strings :
                  ENABLED raiseDispute(a, r, reason) =>
                     /\ a # pbReports[r].reporter
                     /\ now <= pbReports[r].timestamp + DISPUTE_TIMEOUT)
    /\ [][\A r \in DOMAIN pbReports :
            /\ IsPrefix(pbDisputes[r], pbDisputes'[r])
            /\ pbDisputes'[r] # pbDisputes[r] =>
                  /\ Len(pbDisputes'[r]) = Len(pbDisputes[r]) + 1
                  /\ pbReports'[r] =
                        [pbReports[r] EXCEPT !.disputeCount = @ + 1]
                  /\ pbDisputes'[r][Len(pbDisputes'[r])].disputer
                        # pbReports[r].reporter
                  /\ now <= pbReports[r].timestamp + DISPUTE_TIMEOUT
            /\ pbReports'[r].disputeCount # pbReports[r].disputeCount =>
                  pbDisputes'[r] # pbDisputes[r]]_vars

\* a report that has been voted on and disputed is past its dispute period;
\* a2 and the reporter both hold the reputation to dispute, and a2's call
\* fails on the deadline alone
C23_Witness ==
    /\ deployed = PBR
    /\ ~pbPaused
    /\ \E r \in DOMAIN pbReports :
          /\ Len(pbDisputes[r]) = 1
          /\ pbReports[r].upvotes > 0
          /\ pbReports[r].status = "Disputed"
          /\ now > pbReports[r].timestamp + DISPUTE_TIMEOUT
          /\ onlyValidVoter("a2")
          /\ onlyValidVoter(pbReports[r].reporter)
          /\ ~ENABLED raiseDispute("a2", r, "x")

(***************************************************************************)
(* The stake limit (ReputationSystem)                                      *)
(***************************************************************************)
ActiveStakes(a) == {i \in StakeIds : userStakes[a][i].active}

\* C24: userStakeCount[account] equals the number of the account's active
\* stakes and never exceeds MAX_STAKES_PER_USER; depositStake by an account
\* that has MAX_STAKES_PER_USER active stakes fails, whatever the amount,
\* lock period and stake type, and so transfers no tokens.
C24_StakeLimit ==
    \A a \in Accounts :
       /\ userStakeCount[a] = Cardinality(ActiveStakes(a))
       /\ userStakeCount[a] <= MAX_STAKES_PER_USER
       /\ Cardinality(ActiveStakes(a)) = MAX_STAKES_PER_USER =>
             \A amt \in StakeAmounts, p \in LockPeriods, t \in StakeTypes :
                ~ENABLED depositStake(a, amt, p, t)

\* a2 holds MAX_STAKES_PER_USER active stakes while a further stake id is
\* free and a2 has the reputation and the tokens for one more stake: the
\* limit alone stops the deposit
C24_Witness ==
    /\ deployed = RS
    /\ ~rsPaused
    /\ Cardinality(ActiveStakes("a2")) = MAX_STAKES_PER_USER
    /\ stakeCounter + 1 \in StakeIds
    /\ onlyValidStaker("a2")
    /\ tokens["a2"] >= MIN_STAKE_AMOUNT
    /\ ~ENABLED depositStake("a2", MIN_STAKE_AMOUNT, MIN_STAKE_PERIOD, "Report")

\* the sum of the stored weights of the accounts whose current vote on
\* report r is isUpvote
StoredWeight(r, isUpvote) ==
    SumOver([a \in Accounts |-> pbVotes[r][a].reputationWeight],
            {a \in Accounts : /\ pbVotes[r][a].hasVoted
                              /\ pbVotes[r][a].isUpvote = isUpvote})

Tally(report, isUpvote) == IF isUpvote THEN report.upvotes ELSE report.downvotes

\* C25: for every report and after any sequence of votes, first, changed
\* and repeated, with the voters' reputations changing in between, upvotes
\* is the sum of the stored weights of the current upvoters and downvotes
\* the same sum over the current downvoters; a changed vote takes the
\* voter's stored weight out of the tally it leaves and puts the voter's
\* reputation into the other, and a repeated vote changes nothing.
C25_TalliesAreStoredWeights ==
    /\ [](\A r \in DOMAIN pbReports :
            /\ pbReports[r].upvotes = StoredWeight(r, TRUE)
            /\ pbReports[r].downvotes = StoredWeight(r, FALSE))
    /\ [][\A r \in DOMAIN pbReports, a \in Accounts, b \in BOOLEAN :
            vote(a, r, b) /\ pbVotes[r][a].hasVoted =>
               IF pbVotes[r][a].isUpvote = b
               THEN UNCHANGED <<pbReports, pbVotes>>
               ELSE /\ Tally(pbReports'[r], ~b) =
                          Tally(pbReports[r], ~b)
                             - pbVotes[r][a].reputationWeight
                    /\ Tally(pbReports'[r], b) =
                          Tally(pbReports[r], b) + userReputation[a]
                    /\ pbVotes'[r][a].reputationWeight = userReputation[a]]_vars

\* a2 and a3 have both voted on a report, on the same side and with
\* different stored weights; a2's reputation has changed since its vote and
\* a2 can change the vote
C25_Witness ==
    /\ deployed = PBR
    /\ \E r \in DOMAIN pbReports :
          /\ pbVotes[r]["a2"].hasVoted
          /\ pbVotes[r]["a3"].hasVoted
          /\ pbVotes[r]["a2"].isUpvote = pbVotes[r]["a3"].isUpvote
          /\ pbVotes[r]["a2"].reputationWeight
                # pbVotes[r]["a3"].reputationWeight
          /\ userReputation["a2"] # pbVotes[r]["a2"].reputationWeight
          /\ ENABLED vote("a2", r, ~pbVotes[r]["a2"].isUpvote)

(***************************************************************************)
(* The vote score (ReportRegistry)                                         *)
(***************************************************************************)
CurrentVoters(h, isUpvote) ==
    {a \in Accounts : rrVotes[h][a].hasVoted /\ rrVotes[h][a].isUpvote = isUpvote}

\* C26: for every registered report voteScore is the number of accounts
\* whose current vote is an upvote minus the number whose current vote is a
\* downvote: a first vote moves the score by 1, a changed vote by 2, a
\* repeated vote not at all; voting on an unregistered hash and registering
\* a registered hash both fail.
C26_VoteScore ==
    /\ [](\A h \in ReportHashes :
            /\ rrReports[h].voteScore =
                  Cardinality(CurrentVoters(h, TRUE))
                     - Cardinality(CurrentVoters(h, FALSE))
            /\ rrReports[h].exists =>
                  \A a \in Accounts : ~ENABLED registerReport(a, h)
            /\ ~rrReports[h].exists =>
                  \A a \in Accounts, b \in BOOLEAN :
                     ~ENABLED ReportRegistry_vote(a, h, b))
    /\ [][\A h \in ReportHashes, a \in Accounts, b \in BOOLEAN :
            ReportRegistry_vote(a, h, b) =>
               LET move == IF b THEN 1 ELSE -1 IN
               rrReports'[h].voteScore - rrReports[h].voteScore =
                  IF ~rrVotes[h][a].hasVoted THEN move
                  ELSE IF rrVotes[h][a].isUpvote # b THEN 2 * move
                  ELSE 0]_vars

\* one report carries two upvotes and a downvote, and a2 can turn its vote
\* around, while the other hash has not been registered
C26_Witness ==
    /\ deployed = RR
    /\ \E h, g \in ReportHashes :
          /\ rrReports[h].exists
          /\ Cardinality(CurrentVoters(h, TRUE)) = 2
          /\ Cardinality(CurrentVoters(h, FALSE)) = 1
          /\ rrVotes[h]["a2"].hasVoted
          /\ ENABLED ReportRegistry_vote("a2", h, ~rrVotes[h]["a2"].isUpvote)
          /\ g # ZeroHash
          /\ ~rrReports[g].exists
          /\ ~ENABLED ReportRegistry_vote("a2", g, TRUE)

(***************************************************************************)
(* Timely votes and lapsed reports (StakeBasedReportRegistry)              *)
(***************************************************************************)
\* what voteOnReport needs in order not to revert: its require statements
\* and every transfer of the finalization it may trigger
voteSucceeds(sender, reportId, isValid, value) ==
    /\ ether[sender] >= value
    /\ voteRequires(sender, reportId, value)
    /\ voteOutcome(sender, reportId, isValid, value).ok

\* C27: whenever an active validator who has not yet voted on a Pending
\* report calls voteOnReport with exactly VOTING_STAKE no later than the
\* voting deadline, the call succeeds, with either verdict; in particular
\* the vote that completes the quorum never fails for lack of contract
\* funds, whatever other reports exist.
C27_TimelyVoteSucceeds ==
    \A a \in Accounts, r \in DOMAIN reports :
       /\ onlyActiveValidator(a)
       /\ votingOpen(r)
       /\ notYetVoted(a, r)
       /\ ether[a] >= VOTING_STAKE
       => \A b \in BOOLEAN : voteSucceeds(a, r, b, VOTING_STAKE)

Lapsed(r) ==
    /\ reports[r].status = "Pending"
    /\ now > reports[r].votingDeadline
    /\ Len(reports[r].validators) < MIN_VALIDATORS

\* the reporter's stake and the voting stakes a report holds
StakesOf(report) ==
    report.stakeAmount + SumOver(report.validatorStakes, Accounts)

LapsedFunds ==
    SumOver([r \in DOMAIN reports |-> StakesOf(reports[r])],
            {r \in DOMAIN reports : Lapsed(r)})

\* C28: once a report's voting deadline has passed with fewer than
\* MIN_VALIDATORS votes, no operation changes its status, its tallies or
\* its recorded stakes, and the funds it holds stay in the contract until
\* the owner's emergencyWithdraw takes them: no other step leaves the
\* contract with less than the stakes of its lapsed reports.
C28_LapsedFundsStay ==
    [][/\ \A r \in DOMAIN reports : Lapsed(r) => reports'[r] = reports[r]
       /\ balance >= LapsedFunds /\ balance' < LapsedFunds =>
             emergencyWithdraw(Owner)]_vars

VotersWith(report, voteType) == {a \in Accounts : report.votes[a] = voteType}

\* C30: for every report validVotes + invalidVotes is the number of
\* recorded voters, the recorded voters are pairwise distinct and never
\* more than MIN_VALIDATORS; every finalized report has exactly
\* MIN_VALIDATORS votes and, that number being odd, never as many valid as
\* invalid votes.
C30_VotesAndVoters ==
    \A r \in DOMAIN reports :
       LET report == reports[r] IN
       /\ report.validVotes + report.invalidVotes = Len(report.validators)
       /\ report.validVotes = Cardinality(VotersWith(report, "Valid"))
       /\ report.invalidVotes = Cardinality(VotersWith(report, "Invalid"))
       /\ \A i, j \in DOMAIN report.validators :
             report.validators[i] = report.validators[j] => i = j
       /\ Len(report.validators) <= MIN_VALIDATORS
       /\ report.status \in {"Validated", "Rejected"} =>
             /\ Len(report.validators) = MIN_VALIDATORS
             /\ report.validVotes # report.invalidVotes

\* one report has been finalized two to one while another, still pending,
\* has two voters, one of whom is still active and funded
C30_Witness ==
    /\ deployed = SBR
    /\ \E r, q \in DOMAIN reports :
          /\ reports[r].status \in {"Validated", "Rejected"}
          /\ reports[r].validVotes = 2
          /\ reports[r].invalidVotes = 1
          /\ reports[q].status = "Pending"
          /\ Len(reports[q].validators) = MIN_VALIDATORS - 1
          /\ now <= reports[q].votingDeadline
          /\ \E a \in Accounts :
                /\ reports[q].votes[a] # "None"
                /\ onlyActiveValidator(a)
                /\ ether[a] >= VOTING_STAKE

====
